---- MODULE Spec2Model ----
(***************************************************************************)
(* Model of asm/instruction.go: the codec of a single eBPF instruction     *)
(* (Instruction.Marshal / Instruction.Unmarshal), the map-load bit         *)
(* packing (RewriteMapPtr / RewriteMapOffset) and the linker over an       *)
(* instruction sequence (SymbolOffsets, marshalledOffsets, Marshal,        *)
(* RewriteMapPtr).                                                         *)
(*                                                                         *)
(* Integers wider than 31 bits are kept as little-endian byte tuples in    *)
(* two's complement: a Word32 is 4 bytes, a Word64 is 8 bytes, so that     *)
(* int32(x), uint32(x), x >> 32 and x << 32 are computed on the real       *)
(* widths.  int16 values are plain integers in -32768..32767.              *)
(*                                                                         *)
(* Go slices are 0-based, TLA+ sequences 1-based: the instruction at       *)
(* logical index i is insns[i+1].                                          *)
(***************************************************************************)
EXTENDS Integers, Sequences, FiniteSets, TLC

VARIABLES
    insns,   \* the caller's instruction sequence (Instructions)
    pre,     \* insns as it was when the last operation was called
    op,      \* the last operation called
    args,    \* its arguments
    err,     \* the error it returned
    n,       \* the byte count returned by Instruction.Marshal
    sink,    \* the bytes the last Marshal wrote to its io.Writer
    table,   \* the map returned by SymbolOffsets / marshalledOffsets
    fed,     \* the bytes handed to the io.Reader of Unmarshal
    stream,  \* what is left unread in that io.Reader
    dec,     \* the Instruction that Unmarshal decodes into
    rd,      \* what Unmarshal returned: byte order used, count, error
    hist     \* the bit-packing rewrites applied so far to insns[1], oldest first

vars == <<insns, pre, op, args, err, n, sink, table, fed, stream, dec, rd, hist>>

----------------------------------------------------------------------------
(* Bounds of the model *)

\* longest instruction sequence the caller builds
MaxLen == 3

----------------------------------------------------------------------------
(* Fixed-width integers *)

Zero32 == <<0, 0, 0, 0>>
Ones32 == <<255, 255, 255, 255>>
Zero64 == Zero32 \o Zero32

\* int32(x) and uint32(x) of a 64-bit x: the low four bytes
Lo32(c) == SubSeq(c, 1, 4)
\* int32(x >> 32), uint32(x >> 32): the high four bytes
Hi32(c) == SubSeq(c, 5, 8)
\* int64(x) of an int32 x: sign extension
SignExtend(w) == w \o (IF w[4] >= 128 THEN Ones32 ELSE Zero32)
\* uint64(x) of a uint32 x: zero extension
ZeroExtend(w) == w \o Zero32
\* uint64 x << 32
Shl32(c) == Zero32 \o Lo32(c)
\* uint64 x >> 32
Shr32(c) == Hi32(c) \o Zero32

\* x & y on bytes, bit by bit
And8(x, y) ==
    ((x % 2) * (y % 2))
    + 2 * (((x \div 2) % 2) * ((y \div 2) % 2))
    + 4 * (((x \div 4) % 2) * ((y \div 4) % 2))
    + 8 * (((x \div 8) % 2) * ((y \div 8) % 2))
    + 16 * (((x \div 16) % 2) * ((y \div 16) % 2))
    + 32 * (((x \div 32) % 2) * ((y \div 32) % 2))
    + 64 * (((x \div 64) % 2) * ((y \div 64) % 2))
    + 128 * (((x \div 128) % 2) * ((y \div 128) % 2))
\* x | y on bytes
Or8(x, y) == x + y - And8(x, y)
And64(a, b) == [i \in 1..8 |-> And8(a[i], b[i])]
Or64(a, b) == [i \in 1..8 |-> Or8(a[i], b[i])]

\* int64(v) of a Go int v small enough to be a TLA+ integer
Int64(v) ==
    [i \in 1..8 |-> IF i <= 4 THEN (v \div (256 ^ (i - 1))) % 256
                    ELSE IF v < 0 THEN 255 ELSE 0]
\* int16(v): narrowing to 16 bits, two's complement
Int16(v) == ((v + 32768) % 65536) - 32768

MinusOne64 == Int64(-1)
\* math.MaxUint32 and math.MaxUint32 << 32 as uint64
MaxUint32 == Ones32 \o Zero32
MaxUint32Shl32 == Shl32(MaxUint32)

----------------------------------------------------------------------------
(* Opcodes and registers: asm/opcode.go, asm/jump.go, asm/register.go of   *)
(* the package.  OpCode is one byte: class in bits 0..2, jump operation    *)
(* in bits 4..7; LoadImmOp(DWord) is the only two-slot opcode.             *)

InvalidOpCode == 255
LoadImmDWord == 24
JumpClass == 5
Call == 128
InvalidJumpOp == 255
PseudoMapFD == 1
PseudoMapValue == 2
PseudoCall == 1

Class(opc) == opc % 8
JumpOp(opc) == IF Class(opc) # JumpClass THEN InvalidJumpOp ELSE (opc \div 16) * 16
isDWordLoad(opc) == opc = LoadImmDWord
marshalledInstructions(opc) == IF opc = LoadImmDWord THEN 2 ELSE 1

----------------------------------------------------------------------------
(* Errors.  type is the Go type of the error value; index is the logical   *)
(* instruction index an "instruction %d: ..." message names, or -1.        *)

Nil == [type |-> "nil", msg |-> "", index |-> -1, symbol |-> ""]
New(msg) == [type |-> "errorString", msg |-> msg, index |-> -1, symbol |-> ""]
EOF == New("EOF")
ErrUnexpectedEOF == New("unexpected EOF")
ErrWrite == [type |-> "writeError", msg |-> "write failed", index |-> -1, symbol |-> ""]

unreferencedSymbolError(symbol) ==
    [type |-> "unreferencedSymbolError", msg |-> "unreferenced symbol",
     index |-> -1, symbol |-> symbol]

IsUnreferencedSymbol(e) == e.type = "unreferencedSymbolError"

----------------------------------------------------------------------------
(* The wire format: bpfInstruction through encoding/binary *)

InstructionSize == 8

newBPFRegisters_Swapped(dst, src) == Or8((dst * 16) % 256, And8(src % 256, 15))

newBPFRegisters(dst, src) == Or8((src * 16) % 256, And8(dst % 256, 15))

bpfRegisters_Dst(r) == And8(r, 15)
bpfRegisters_Src(r) == r \div 16

Take(s, k) == IF k < Len(s) THEN SubSeq(s, 1, k) ELSE s
Reverse(s) == [i \in 1..Len(s) |-> s[Len(s) + 1 - i]]
\* a multi-byte field under a binary.ByteOrder: "LE" or "BE"
Ordered(bo, bytes) == IF bo = "LE" THEN bytes ELSE Reverse(bytes)
Uint16Bytes(v) == LET u == (v + 65536) % 65536 IN <<u % 256, u \div 256>>
Int16FromBytes(b) == Int16(b[1] + 256 * b[2])

\* binary.Write(w, bo, &bpfi): the 8 bytes of the struct, in one w.Write.
\* A limited writer accepts w.room more Write calls and fails the next.
SlotBytes(bo, bi) ==
    <<bi.OpCode, bi.Registers>>
        \o Ordered(bo, Uint16Bytes(bi.Offset))
        \o Ordered(bo, bi.Constant)

BinaryWrite(w, bo, bi) ==
    IF w.limited /\ w.room = 0
    THEN [w |-> w, err |-> ErrWrite]
    ELSE [w |-> [w EXCEPT !.buf = w.buf \o SlotBytes(bo, bi),
                          !.room = IF w.limited THEN w.room - 1 ELSE w.room],
          err |-> Nil]

\* binary.Read(r, bo, &bi): io.ReadFull of 8 bytes, then the struct.
ZeroSlot == [OpCode |-> 0, Registers |-> 0, Offset |-> 0, Constant |-> Zero32]

BinaryRead(r, bo) ==
    IF Len(r) = 0 THEN [r |-> r, err |-> EOF, bi |-> ZeroSlot]
    ELSE IF Len(r) < InstructionSize
    THEN [r |-> <<>>, err |-> ErrUnexpectedEOF, bi |-> ZeroSlot]
    ELSE [r |-> SubSeq(r, InstructionSize + 1, Len(r)),
          err |-> Nil,
          bi |-> [OpCode |-> r[1],
                  Registers |-> r[2],
                  Offset |-> Int16FromBytes(Ordered(bo, SubSeq(r, 3, 4))),
                  Constant |-> Ordered(bo, SubSeq(r, 5, 8))]]

----------------------------------------------------------------------------
(* Instruction.Unmarshal *)

PaddingNonZero_NoRegisters(bi2) == bi2.OpCode # 0 \/ bi2.Offset # 0

PaddingNonZero(bi2) == bi2.OpCode # 0 \/ bi2.Offset # 0 \/ bi2.Registers # 0

\* ins is the receiver; the result holds the receiver after the call.
Instruction_Unmarshal(ins, r, bo) ==
    LET r1 == BinaryRead(r, bo)
        bi == r1.bi
        ins1 == [ins EXCEPT !.OpCode = bi.OpCode,
                            !.Dst = bpfRegisters_Dst(bi.Registers),
                            !.Src = bpfRegisters_Src(bi.Registers),
                            !.Offset = bi.Offset,
                            !.Constant = SignExtend(bi.Constant)]
    IN  IF r1.err # Nil
        THEN [n |-> 0, err |-> r1.err, ins |-> ins, r |-> r1.r]
        ELSE IF ~isDWordLoad(bi.OpCode)
        THEN [n |-> InstructionSize, err |-> Nil, ins |-> ins1, r |-> r1.r]
        ELSE LET r2 == BinaryRead(r1.r, bo)
                 bi2 == r2.bi
             IN  IF r2.err # Nil
                 THEN [n |-> 0, err |-> New("64bit immediate is missing second half"),
                       ins |-> ins1, r |-> r2.r]
                 ELSE IF PaddingNonZero(bi2)
                 THEN [n |-> 0, err |-> New("64bit immediate has non-zero fields"),
                       ins |-> ins1, r |-> r2.r]
                 ELSE [n |-> 2 * InstructionSize, err |-> Nil,
                       ins |-> [ins1 EXCEPT !.Constant =
                                    Or64(Shl32(ZeroExtend(bi2.Constant)),
                                         ZeroExtend(bi.Constant))],
                       r |-> r2.r]

----------------------------------------------------------------------------
(* Instruction.Marshal *)

Instruction_Marshal_WriteFirst(ins, w, bo) ==
    LET dw == isDWordLoad(ins.OpCode)
        bpfi == [OpCode |-> ins.OpCode,
                 Registers |-> newBPFRegisters(ins.Dst, ins.Src),
                 Offset |-> ins.Offset,
                 Constant |-> Lo32(ins.Constant)]
        w1 == BinaryWrite(w, bo, bpfi)
    IN  IF w1.err # Nil THEN [n |-> 0, err |-> w1.err, w |-> w1.w]
        ELSE IF ins.OpCode = InvalidOpCode
        THEN [n |-> 0, err |-> New("invalid opcode"), w |-> w1.w]
        ELSE IF ~dw THEN [n |-> InstructionSize, err |-> Nil, w |-> w1.w]
        ELSE LET w2 == BinaryWrite(w1.w, bo, [ZeroSlot EXCEPT !.Constant = Hi32(ins.Constant)])
             IN  IF w2.err # Nil THEN [n |-> 0, err |-> w2.err, w |-> w2.w]
                 ELSE [n |-> 2 * InstructionSize, err |-> Nil, w |-> w2.w]

Instruction_Marshal(ins, w, bo) ==
    IF ins.OpCode = InvalidOpCode
    THEN [n |-> 0, err |-> New("invalid opcode"), w |-> w]
    ELSE
    LET dw == isDWordLoad(ins.OpCode)
        \* int32(ins.Constant), or int32(uint32(ins.Constant)) for a 64bit load
        cons == Lo32(ins.Constant)
        bpfi == [OpCode |-> ins.OpCode,
                 Registers |-> newBPFRegisters(ins.Dst, ins.Src),
                 Offset |-> ins.Offset,
                 Constant |-> cons]
        w1 == BinaryWrite(w, bo, bpfi)
    IN  IF w1.err # Nil THEN [n |-> 0, err |-> w1.err, w |-> w1.w]
        ELSE IF ~dw THEN [n |-> InstructionSize, err |-> Nil, w |-> w1.w]
        ELSE LET bpfi2 == [ZeroSlot EXCEPT !.Constant = Hi32(ins.Constant)]
                 w2 == BinaryWrite(w1.w, bo, bpfi2)
             IN  IF w2.err # Nil THEN [n |-> 0, err |-> w2.err, w |-> w2.w]
                 ELSE [n |-> 2 * InstructionSize, err |-> Nil, w |-> w2.w]

----------------------------------------------------------------------------
(* Map-load bit packing: the constant of a 64 bit load from a map is       *)
(* {offset:32, fd:32}.  fd is a Go int (a Word64), offset a uint32.        *)

Errorf(msg) == [type |-> "noWrapError", msg |-> msg, index |-> -1, symbol |-> ""]

Instruction_RewriteMapPtr_DropOffset(ins, fd) ==
    IF ~isDWordLoad(ins.OpCode)
    THEN [err |-> Errorf("not a 64 bit load"), ins |-> ins]
    ELSE IF ins.Src # PseudoMapFD /\ ins.Src # PseudoMapValue
    THEN [err |-> New("not a load from a map"), ins |-> ins]
    ELSE [err |-> Nil, ins |-> [ins EXCEPT !.Constant = ZeroExtend(Lo32(fd))]]

Instruction_RewriteMapPtr(ins, fd) ==
    IF ~isDWordLoad(ins.OpCode)
    THEN [err |-> Errorf("not a 64 bit load"), ins |-> ins]
    ELSE IF ins.Src # PseudoMapFD /\ ins.Src # PseudoMapValue
    THEN [err |-> New("not a load from a map"), ins |-> ins]
    ELSE LET offset == And64(ins.Constant, MaxUint32Shl32)
             rawFd == ZeroExtend(Lo32(fd))
         IN  [err |-> Nil, ins |-> [ins EXCEPT !.Constant = Or64(offset, rawFd)]]

mapPtr(ins) == Lo32(And64(ins.Constant, MaxUint32))

Instruction_RewriteMapOffset_DropFd(ins, offset) ==
    IF ~isDWordLoad(ins.OpCode)
    THEN [err |-> Errorf("not a 64 bit load"), ins |-> ins]
    ELSE IF ins.Src # PseudoMapValue
    THEN [err |-> New("not a direct load from a map"), ins |-> ins]
    ELSE [err |-> Nil, ins |-> [ins EXCEPT !.Constant = Shl32(ZeroExtend(offset))]]

Instruction_RewriteMapOffset(ins, offset) ==
    IF ~isDWordLoad(ins.OpCode)
    THEN [err |-> Errorf("not a 64 bit load"), ins |-> ins]
    ELSE IF ins.Src # PseudoMapValue
    THEN [err |-> New("not a direct load from a map"), ins |-> ins]
    ELSE LET fd == And64(ins.Constant, MaxUint32)
         IN  [err |-> Nil,
              ins |-> [ins EXCEPT !.Constant = Or64(Shl32(ZeroExtend(offset)), fd)]]

mapOffset(ins) == Lo32(Shr32(ins.Constant))

----------------------------------------------------------------------------
(* Instructions.RewriteMapPtr: rewrites insns[i] in place, stops at the    *)
(* first instruction that refuses.                                         *)

NotFound_Nil(symbol) == Nil

NotFound(symbol) == unreferencedSymbolError(symbol)

RECURSIVE RewriteMapPtr_Loop(_, _, _, _, _)
RewriteMapPtr_Loop(seq, symbol, fd, i, found) ==
    IF i > Len(seq)
    THEN [err |-> IF ~found THEN NotFound(symbol) ELSE Nil, insns |-> seq]
    ELSE IF seq[i].Reference # symbol
    THEN RewriteMapPtr_Loop(seq, symbol, fd, i + 1, found)
    ELSE LET r == Instruction_RewriteMapPtr(seq[i], fd)
         IN  IF r.err # Nil
             THEN [err |-> r.err, insns |-> seq]
             ELSE RewriteMapPtr_Loop([seq EXCEPT ![i] = r.ins], symbol, fd, i + 1, TRUE)

Instructions_RewriteMapPtr(seq, symbol, fd) ==
    IF symbol = ""
    THEN [err |-> New("empty symbol"), insns |-> seq]
    ELSE RewriteMapPtr_Loop(seq, symbol, fd, 1, FALSE)

----------------------------------------------------------------------------
(* SymbolOffsets and marshalledOffsets.  A map[string]int is a function    *)
(* on the set of its keys; nil is TRUE when the map returned is nil.       *)

EmptyMap == [k \in {} |-> 0]
Put(m, k, v) == [x \in DOMAIN m \cup {k} |-> IF x = k THEN v ELSE m[x]]

\* _, ok := m[k]
Has_Never(m, k) == FALSE

Has(m, k) == k \in DOMAIN m

DuplicateSymbol(symbol) ==
    [type |-> "noWrapError", msg |-> "duplicate symbol", index |-> -1, symbol |-> symbol]

RECURSIVE SymbolOffsets_Loop(_, _, _)
SymbolOffsets_Loop(seq, i, offsets) ==
    IF i > Len(seq) THEN [m |-> offsets, nil |-> FALSE, err |-> Nil]
    ELSE IF seq[i].Symbol = "" THEN SymbolOffsets_Loop(seq, i + 1, offsets)
    ELSE IF Has(offsets, seq[i].Symbol)
    THEN [m |-> EmptyMap, nil |-> TRUE, err |-> DuplicateSymbol(seq[i].Symbol)]
    ELSE SymbolOffsets_Loop(seq, i + 1, Put(offsets, seq[i].Symbol, i - 1))

SymbolOffsets(seq) == SymbolOffsets_Loop(seq, 1, EmptyMap)

RECURSIVE marshalledOffsets_Loop(_, _, _, _)
marshalledOffsets_Loop(seq, i, marshalledPos, symbols) ==
    IF i > Len(seq) THEN [m |-> symbols, nil |-> FALSE, err |-> Nil]
    ELSE LET currentPos == marshalledPos
             nextPos == marshalledPos + marshalledInstructions(seq[i].OpCode)
         IN  IF seq[i].Symbol = ""
             THEN marshalledOffsets_Loop(seq, i + 1, nextPos, symbols)
             ELSE IF Has(symbols, seq[i].Symbol)
             THEN [m |-> EmptyMap, nil |-> TRUE, err |-> DuplicateSymbol(seq[i].Symbol)]
             ELSE marshalledOffsets_Loop(seq, i + 1, nextPos,
                                         Put(symbols, seq[i].Symbol, currentPos))

marshalledOffsets(seq) == marshalledOffsets_Loop(seq, 1, 0, EmptyMap)

----------------------------------------------------------------------------
(* Instructions.Marshal *)

MissingSymbol(i, symbol) ==
    [type |-> "noWrapError", msg |-> "reference to missing symbol",
     index |-> i, symbol |-> symbol]
\* xerrors.Errorf("instruction %d: %w", i, err)
Wrap(i, e) == [type |-> "wrapError", msg |-> e.msg, index |-> i, symbol |-> e.symbol]

\* offset - num - 1
Relative_NoNext(offset, num) == offset - num

Relative(offset, num) == offset - num - 1

\* the two cases of the switch; the first that matches is taken
IsCallRewrite(ins) == JumpOp(ins.OpCode) = Call /\ ins.Constant = MinusOne64
IsJumpRewrite(ins) == Class(ins.OpCode) = JumpClass /\ ins.Offset = -1

\* the switch on the loop's copy of the instruction: ok is FALSE when the
\* reference is missing from absoluteOffsets
Resolve(ins, absoluteOffsets, num) ==
    IF IsCallRewrite(ins)
    THEN IF ~Has(absoluteOffsets, ins.Reference) THEN [ok |-> FALSE, ins |-> ins]
         ELSE [ok |-> TRUE,
               ins |-> [ins EXCEPT !.Constant =
                            Int64(Relative(absoluteOffsets[ins.Reference], num))]]
    ELSE IF IsJumpRewrite(ins)
    THEN IF ~Has(absoluteOffsets, ins.Reference) THEN [ok |-> FALSE, ins |-> ins]
         ELSE [ok |-> TRUE,
               ins |-> [ins EXCEPT !.Offset =
                            Int16(Relative(absoluteOffsets[ins.Reference], num))]]
    ELSE [ok |-> TRUE, ins |-> ins]

\* "for i, ins := range insns": ins is a copy, the slice keeps its element
RangeValue_InPlace(seq, i, ins) == [seq EXCEPT ![i] = ins]

RangeValue(seq, i, ins) == seq

RECURSIVE Marshal_Loop(_, _, _, _, _, _)
Marshal_Loop(seq, absoluteOffsets, i, num, w, bo) ==
    IF i > Len(seq) THEN [err |-> Nil, w |-> w, insns |-> seq]
    ELSE LET rs == Resolve(seq[i], absoluteOffsets, num)
         IN  IF ~rs.ok
             THEN [err |-> MissingSymbol(i - 1, seq[i].Reference), w |-> w, insns |-> seq]
             ELSE LET m == Instruction_Marshal(rs.ins, w, bo)
                      seq1 == RangeValue(seq, i, rs.ins)
                  IN  IF m.err # Nil
                      THEN [err |-> Wrap(i - 1, m.err), w |-> m.w, insns |-> seq1]
                      ELSE Marshal_Loop(seq1, absoluteOffsets, i + 1,
                                        num + (m.n \div InstructionSize), m.w, bo)

Instructions_Marshal(seq, w, bo) ==
    LET t == marshalledOffsets(seq)
    IN  IF t.err # Nil THEN [err |-> t.err, w |-> w, insns |-> seq]
        ELSE Marshal_Loop(seq, t.m, 1, 0, w, bo)

----------------------------------------------------------------------------
(* The caller: the instructions it builds programs from, and the           *)
(* arguments it calls the operations with.                                 *)

Ins(opc, dst, src, off, c, ref, sym) ==
    [OpCode |-> opc, Dst |-> dst, Src |-> src, Offset |-> off, Constant |-> c,
     Reference |-> ref, Symbol |-> sym]

\* 0x1_0000_0001: low slot 1, high slot 1
Wide == <<1, 0, 0, 0, 1, 0, 0, 0>>
\* offset 16, fd 0xFFFFFFFF
Packed == <<255, 255, 255, 255, 16, 0, 0, 0>>

\* programs for the linker: 0xb7 mov imm, 0x95 exit, 0x18 lddw, 0x05 ja,
\* 0x15 jeq imm, 0x85 call, 0xff invalid
LinkPool ==
    { Ins(183, 1, 0, 0, Int64(7), "", ""),
      Ins(183, 1, 0, 0, Int64(7), "", "A"),
      Ins(149, 0, 0, 0, Zero64, "", "B"),
      Ins(24, 2, 0, 0, Wide, "", ""),
      Ins(24, 1, PseudoMapFD, 0, Zero64, "M", ""),
      Ins(24, 1, PseudoMapValue, 0, Packed, "M", "A"),
      Ins(5, 0, 0, -1, Zero64, "A", ""),
      Ins(21, 1, 0, -1, Int64(9), "B", ""),
      Ins(133, 0, PseudoCall, 0, MinusOne64, "A", ""),
      Ins(133, 0, 0, 0, MinusOne64, "", ""),
      Ins(133, 0, PseudoCall, -1, MinusOne64, "B", ""),
      Ins(255, 0, 0, 0, Zero64, "", "") }

SymbolPool == {"", "A", "M"}
\* 0x1_12345678: an fd that does not fit in 32 bits
BigFd == <<120, 86, 52, 18, 1, 0, 0, 0>>
FdPool == {Int64(3), BigFd}
OffsetPool == {<<32, 0, 0, 0>>, Ones32}
ByteOrders == {"LE", "BE"}
\* writers: one that takes every Write, one that fails after the first
Unlimited == [buf |-> <<>>, limited |-> FALSE, room |-> 0]
Writers == {Unlimited, [buf |-> <<>>, limited |-> TRUE, room |-> 1]}

\* single instructions for the codec
CodecPool ==
    { Ins(opc, dst, src, off, c, "", "") :
        opc \in {183, 24, 133, 255}, dst \in {0, 10, 21}, src \in {0, 2, 17},
        off \in {0, -1, 4660},
        c \in {MinusOne64, Wide, <<0, 0, 0, 128, 0, 0, 0, 0>>,
               <<0, 0, 0, 128, 255, 255, 255, 255>>} }

\* single instructions for the bit packing
PackPool ==
    { Ins(24, 1, PseudoMapFD, 0, Packed, "M", ""),
      Ins(24, 1, PseudoMapValue, 0, Packed, "M", ""),
      Ins(24, 1, PseudoMapValue, 0, Zero64, "M", ""),
      Ins(24, 1, 0, 0, Wide, "", ""),
      Ins(183, 1, PseudoMapValue, 0, Int64(7), "M", "") }

\* second slots a byte stream may carry after a first slot
TailSlots ==
    { <<0, 0, 0, 0, 120, 86, 52, 18>>,
      <<0, 16, 0, 0, 1, 0, 0, 0>>,
      <<183, 0, 0, 0, 1, 0, 0, 0>>,
      <<0, 0, 0, 1, 1, 0, 0, 0>> }
Cuts == {0, 5, 8, 13, 16, 24}

NoArgs == [bo |-> "LE", w |-> Unlimited,
           symbol |-> "", fd |-> Zero64, offset |-> Zero32]
NoTable == [m |-> EmptyMap, nil |-> TRUE, err |-> Nil]
NoRead == [bo |-> "LE", n |-> 0, err |-> Nil]
\* the receiver Unmarshal decodes into, before the call
Blank == Ins(0, 0, 0, 0, Zero64, "R", "S")

Start(seqs) ==
    /\ insns \in seqs
    /\ pre = <<>>
    /\ op = "none"
    /\ args = NoArgs
    /\ err = Nil
    /\ n = 0
    /\ sink = <<>>
    /\ table = NoTable
    /\ fed = <<>>
    /\ stream = <<>>
    /\ dec = Blank
    /\ rd = NoRead
    /\ hist = <<>>

----------------------------------------------------------------------------
(* The linker.  The caller builds a program, patches it by symbol, and     *)
(* encodes it.  The tables and the encoding are computed afresh from the   *)
(* sequence on every call and keep nothing between calls, so each          *)
(* operation is called once on every program the caller can have built,    *)
(* and Marshal also on every program RewriteMapPtr has patched.            *)

Init == Start({<<>>})

\* the caller appends an instruction to the program
Build ==
    /\ op \in {"none", "Build"}
    /\ Len(insns) < MaxLen
    /\ \E ins \in LinkPool : insns' = Append(insns, ins)
    /\ op' = "Build"
    /\ pre' = insns
    /\ UNCHANGED <<args, err, n, sink, table, fed, stream, dec, rd, hist>>

DoSymbolOffsets ==
    /\ op \in {"none", "Build"}
    /\ op' = "SymbolOffsets"
    /\ pre' = insns
    /\ table' = SymbolOffsets(insns)
    /\ err' = table'.err
    /\ args' = NoArgs
    /\ sink' = <<>>
    /\ UNCHANGED <<insns, n, fed, stream, dec, rd, hist>>

DoMarshalledOffsets ==
    /\ op \in {"none", "Build"}
    /\ op' = "marshalledOffsets"
    /\ pre' = insns
    /\ table' = marshalledOffsets(insns)
    /\ err' = table'.err
    /\ args' = NoArgs
    /\ sink' = <<>>
    /\ UNCHANGED <<insns, n, fed, stream, dec, rd, hist>>

DoMarshal ==
    /\ op \in {"none", "Build", "RewriteMapPtr"}
    /\ \E bo \in ByteOrders, w \in Writers :
         LET res == Instructions_Marshal(insns, w, bo)
         IN  /\ insns' = res.insns
             /\ err' = res.err
             /\ sink' = res.w.buf
             /\ args' = [NoArgs EXCEPT !.bo = bo, !.w = w]
    /\ op' = "Marshal"
    /\ pre' = insns
    /\ table' = NoTable
    /\ UNCHANGED <<n, fed, stream, dec, rd, hist>>

DoRewriteMapPtr ==
    /\ op \in {"none", "Build"}
    /\ \E symbol \in SymbolPool, fd \in {BigFd} :
         LET res == Instructions_RewriteMapPtr(insns, symbol, fd)
         IN  /\ insns' = res.insns
             /\ err' = res.err
             /\ args' = [NoArgs EXCEPT !.symbol = symbol, !.fd = fd]
    /\ op' = "RewriteMapPtr"
    /\ pre' = insns
    /\ table' = NoTable
    /\ sink' = <<>>
    /\ UNCHANGED <<n, fed, stream, dec, rd, hist>>

Next ==
    \/ Build
    \/ DoSymbolOffsets
    \/ DoMarshalledOffsets
    \/ DoMarshal
    \/ DoRewriteMapPtr

Spec == Init /\ [][Next]_vars

----------------------------------------------------------------------------
(* The codec: an instruction is encoded, a byte stream is decoded *)

CodecInit == Start({<<ins>> : ins \in CodecPool})

DoInstructionMarshal ==
    /\ op = "none"
    /\ \E bo \in ByteOrders, w \in Writers :
         LET res == Instruction_Marshal(insns[1], w, bo)
         IN  /\ n' = res.n
             /\ err' = res.err
             /\ sink' = res.w.buf
             /\ args' = [NoArgs EXCEPT !.bo = bo, !.w = w]
    /\ op' = "Instruction.Marshal"
    /\ pre' = insns
    /\ UNCHANGED <<insns, table, fed, stream, dec, rd, hist>>

\* the bytes a reader is opened on: what Marshal wrote, or its first slot,
\* followed by another slot, cut short or not
Feed ==
    /\ op = "Instruction.Marshal"
    /\ \E head \in {sink, Take(sink, InstructionSize)}, tail \in TailSlots, k \in Cuts :
         /\ fed' \in {sink, Take(head \o tail, k)}
         /\ stream' = fed'
    /\ op' = "Feed"
    /\ UNCHANGED <<insns, pre, args, err, n, sink, table, dec, rd, hist>>

DoUnmarshal ==
    /\ op = "Feed"
    /\ \E bo \in ByteOrders :
         LET res == Instruction_Unmarshal(dec, stream, bo)
         IN  /\ dec' = res.ins
             /\ stream' = res.r
             /\ rd' = [bo |-> bo, n |-> res.n, err |-> res.err]
    /\ op' = "Unmarshal"
    /\ UNCHANGED <<insns, pre, args, err, n, sink, table, fed, hist>>

CodecNext ==
    \/ DoInstructionMarshal
    \/ Feed
    \/ DoUnmarshal

CodecSpec == CodecInit /\ [][CodecNext]_vars

----------------------------------------------------------------------------
(* The bit packing: a map load is rewritten, again and again *)

PackInit == Start({<<ins>> : ins \in PackPool})

\* the last two rewrites
Remember(h, e) == IF Len(h) < 2 THEN Append(h, e) ELSE Append(Tail(h), e)

DoInstructionRewriteMapPtr ==
    /\ \E fd \in FdPool :
         LET res == Instruction_RewriteMapPtr(insns[1], fd)
         IN  /\ insns' = [insns EXCEPT ![1] = res.ins]
             /\ err' = res.err
             /\ args' = [NoArgs EXCEPT !.fd = fd]
             /\ hist' = Remember(hist, [op |-> "RewriteMapPtr", fd |-> fd,
                                        offset |-> Zero32, err |-> res.err])
    /\ op' = "Instruction.RewriteMapPtr"
    /\ pre' = insns
    /\ UNCHANGED <<n, sink, table, fed, stream, dec, rd>>

DoInstructionRewriteMapOffset ==
    /\ \E offset \in OffsetPool :
         LET res == Instruction_RewriteMapOffset(insns[1], offset)
         IN  /\ insns' = [insns EXCEPT ![1] = res.ins]
             /\ err' = res.err
             /\ args' = [NoArgs EXCEPT !.offset = offset]
             /\ hist' = Remember(hist, [op |-> "RewriteMapOffset", fd |-> Zero64,
                                        offset |-> offset, err |-> res.err])
    /\ op' = "Instruction.RewriteMapOffset"
    /\ pre' = insns
    /\ UNCHANGED <<n, sink, table, fed, stream, dec, rd>>

PackNext ==
    \/ DoInstructionRewriteMapPtr
    \/ DoInstructionRewriteMapOffset

PackSpec == PackInit /\ [][PackNext]_vars

----------------------------------------------------------------------------
(* What the properties below read off a state *)

\* slots taken by the instructions before seq[i]: 1 each, 2 for a 64bit load
RECURSIVE SlotsBefore(_, _)
SlotsBefore(seq, i) ==
    IF i <= 1 THEN 0
    ELSE SlotsBefore(seq, i - 1) + (IF seq[i - 1].OpCode = LoadImmDWord THEN 2 ELSE 1)

Symbols(seq) == {seq[i].Symbol : i \in 1..Len(seq)} \ {""}
HasDuplicate(seq) ==
    \E i, j \in 1..Len(seq) : i # j /\ seq[i].Symbol # "" /\ seq[i].Symbol = seq[j].Symbol
Defines(seq, name) == name # "" /\ \E j \in 1..Len(seq) : seq[j].Symbol = name
\* slot of the instruction that defines name, and its displacement from seq[i]
TargetSlot(seq, name) == SlotsBefore(seq, CHOOSE j \in 1..Len(seq) : seq[j].Symbol = name)
Displacement(seq, i) == TargetSlot(seq, seq[i].Reference) - SlotsBefore(seq, i) - 1

\* Marshal got past pre[i]: it returned nil, or failed at a later instruction
Encoded(i) == err = Nil \/ err.index >= i
\* the first slot Marshal wrote for pre[i], and its fields under the byte order
SlotOf(i) == SubSeq(sink, 8 * SlotsBefore(pre, i) + 1, 8 * SlotsBefore(pre, i) + 8)
EncOffset(i) == Int16FromBytes(Ordered(args.bo, SubSeq(SlotOf(i), 3, 4)))
EncConstant(i) == Ordered(args.bo, SubSeq(SlotOf(i), 5, 8))

IsBranch(ins) == ins.OpCode % 8 = JumpClass
IsCall(ins) == IsBranch(ins) /\ (ins.OpCode \div 16) = 8
\* a call the linker is meant to resolve: a bpf-to-bpf call left at -1
PendingCall(ins) == IsCall(ins) /\ ins.Src = PseudoCall /\ ins.Constant = MinusOne64
MissingAt(i) == err.msg = "reference to missing symbol" /\ err.index = i - 1
\* an instruction Marshal looks a symbol up for: a call with Constant = -1
\* whatever its Src, or a branch with Offset = -1
NeedsSymbol(ins) ==
    (IsCall(ins) /\ ins.Constant = MinusOne64) \/ (IsBranch(ins) /\ ins.Offset = -1)

----------------------------------------------------------------------------
(* C2 as stated: every branch-class instruction with Offset = -1 whose     *)
(* Reference is defined is encoded with offset = target_slot - num - 1,    *)
(* and a pending call gets the same value in Constant.  A call with both   *)
(* Constant = -1 and Offset = -1 takes the call case only: its offset is   *)
(* encoded as -1.                                                          *)
C2_AsStated ==
    op = "Marshal" =>
        \A i \in 1..Len(pre) :
            (Encoded(i) /\ Defines(pre, pre[i].Reference)) =>
                /\ (IsBranch(pre[i]) /\ pre[i].Offset = -1) =>
                       EncOffset(i) = Displacement(pre, i)
                /\ PendingCall(pre[i]) =>
                       EncConstant(i) = Lo32(Int64(Displacement(pre, i)))

(* C2, amended: every branch-class instruction with Offset = -1 that is    *)
(* not a call with Constant = -1, and whose Reference is defined, is       *)
(* encoded with offset = target_slot - num - 1 counted in slots; a call    *)
(* with Src = PseudoCall and Constant = -1 is encoded with that value as   *)
(* its constant.                                                           *)
C2_RelativeAddressing ==
    op = "Marshal" =>
        \A i \in 1..Len(pre) :
            (Encoded(i) /\ Defines(pre, pre[i].Reference)) =>
                /\ (IsBranch(pre[i]) /\ pre[i].Offset = -1
                        /\ ~(IsCall(pre[i]) /\ pre[i].Constant = MinusOne64)) =>
                       EncOffset(i) = Displacement(pre, i)
                /\ PendingCall(pre[i]) =>
                       EncConstant(i) = Lo32(Int64(Displacement(pre, i)))

\* a jump over a 64bit load to a later symbol is encoded: displacement 2
C2_Witness ==
    /\ op = "Marshal" /\ err = Nil /\ Len(pre) = 3
    /\ pre[1].OpCode = 5 /\ pre[1].Offset = -1 /\ pre[1].Reference = "A"
    /\ pre[2].OpCode = LoadImmDWord /\ pre[2].Symbol = ""
    /\ pre[3].Symbol = "A"
    /\ EncOffset(1) = 2

----------------------------------------------------------------------------
(* C3 as stated: a call is resolved exactly when Src = PseudoCall and      *)
(* Constant = -1; a call with another Src keeps its Constant and never     *)
(* fails with a missing symbol, even with Constant = -1.  (A call whose    *)
(* Offset is -1 is left to the branch case and is not judged here.)        *)
C3_PendingCallNeedsPseudoCall ==
    op = "Marshal" =>
        \A i \in 1..Len(pre) :
            (IsCall(pre[i]) /\ pre[i].Offset # -1) =>
                IF PendingCall(pre[i])
                THEN (Encoded(i) /\ Defines(pre, pre[i].Reference)) =>
                         EncConstant(i) = Lo32(Int64(Displacement(pre, i)))
                ELSE /\ ~MissingAt(i)
                     /\ Encoded(i) => EncConstant(i) = Lo32(pre[i].Constant)

----------------------------------------------------------------------------
(* C4: with two instructions carrying the same non-empty Symbol,           *)
(* SymbolOffsets and marshalledOffsets return a duplicate-symbol error     *)
(* and a nil map, and Marshal returns that error with nothing written;     *)
(* with pairwise distinct symbols both succeed and the map has exactly     *)
(* one entry per non-empty symbol.                                         *)
C4_DuplicateSymbol ==
    /\ op \in {"SymbolOffsets", "marshalledOffsets"} =>
          IF HasDuplicate(pre)
          THEN err.msg = "duplicate symbol" /\ table.nil /\ table.err = err
          ELSE err = Nil /\ ~table.nil /\ DOMAIN table.m = Symbols(pre)
    /\ (op = "Marshal" /\ HasDuplicate(pre)) =>
          err.msg = "duplicate symbol" /\ sink = <<>>

\* the duplicate comes after an instruction Marshal could have encoded
C4_Witness ==
    /\ op = "Marshal" /\ Len(pre) = 3
    /\ pre[1].Symbol = "" /\ pre[1].OpCode = 183
    /\ pre[2].Symbol = "A" /\ pre[3].Symbol = "A"
    /\ args.w = Unlimited

----------------------------------------------------------------------------
(* C5 *)

References(seq) == {seq[i].Reference : i \in 1..Len(seq)}
\* pre[i] asks Marshal for a symbol that no instruction defines
Unresolvable(seq, i) == NeedsSymbol(seq[i]) /\ ~Defines(seq, seq[i].Reference)
FirstUnresolvable(seq) ==
    CHOOSE i \in 1..Len(seq) :
        Unresolvable(seq, i) /\ \A j \in 1..(i - 1) : ~Unresolvable(seq, j)
\* Marshal fails where it first meets a missing symbol, unless an earlier
\* instruction already failed to encode
MarshalNamesOffender ==
    (op = "Marshal" /\ ~HasDuplicate(pre) /\ \E i \in 1..Len(pre) : Unresolvable(pre, i)) =>
        LET k == FirstUnresolvable(pre)
        IN  /\ err # Nil
            /\ ~IsUnreferencedSymbol(err)
            /\ err.index \in 0..(k - 1)
            /\ err.index = k - 1 =>
                   err.msg = "reference to missing symbol" /\ err.symbol = pre[k].Reference
            /\ err.index < k - 1 =>
                   \/ pre[err.index + 1].OpCode = InvalidOpCode /\ err.msg = "invalid opcode"
                   \/ args.w.limited /\ err.msg = "write failed"

(* C5 as stated: RewriteMapPtr with any symbol that is the Reference of    *)
(* no instruction returns an error matching IsUnreferencedSymbol and       *)
(* changes nothing; Marshal on a sequence with a pending reference to an   *)
(* absent symbol returns an error that does not match and names the        *)
(* index.  With symbol = "" the error is "empty symbol", which does not    *)
(* match.                                                                  *)
C5_AsStated ==
    /\ (op = "RewriteMapPtr" /\ args.symbol \notin References(pre)) =>
          IsUnreferencedSymbol(err) /\ insns = pre
    /\ MarshalNamesOffender

(* C5, amended: the same for every non-empty symbol; a pending call or     *)
(* branch is one Marshal looks a symbol up for, and the index named is     *)
(* that of the first instruction Marshal cannot encode.                    *)
C5_UnreferencedOrMissing ==
    /\ (op = "RewriteMapPtr" /\ args.symbol # "" /\ args.symbol \notin References(pre)) =>
          IsUnreferencedSymbol(err) /\ err.symbol = args.symbol /\ insns = pre
    /\ MarshalNamesOffender

\* a program with references, none of them to the symbol asked for
C5_Witness ==
    /\ op = "RewriteMapPtr" /\ args.symbol = "M" /\ Len(pre) = 3
    /\ pre[1].Reference = "A" /\ pre[2].Reference = "B"
    /\ "M" \notin References(pre)
    /\ IsUnreferencedSymbol(err)

----------------------------------------------------------------------------
(* C7: when Instructions.RewriteMapPtr(symbol, fd) succeeds, every         *)
(* instruction whose Reference is symbol has the low 32 bits of Constant   *)
(* equal to fd truncated to 32 bits and the high 32 bits unchanged; every  *)
(* other instruction, and every other field, is unchanged; the length      *)
(* and the order of the sequence are unchanged.                            *)
C7_RewriteMapPtrFrame ==
    (op = "RewriteMapPtr" /\ err = Nil) =>
        /\ Len(insns) = Len(pre)
        /\ \A i \in 1..Len(pre) :
              /\ [insns[i] EXCEPT !.Constant = Zero64] = [pre[i] EXCEPT !.Constant = Zero64]
              /\ Hi32(insns[i].Constant) = Hi32(pre[i].Constant)
              /\ Lo32(insns[i].Constant) =
                     IF pre[i].Reference = args.symbol THEN Lo32(args.fd)
                     ELSE Lo32(pre[i].Constant)

\* a load with a non-zero offset half is rewritten next to an instruction
\* with another reference
C7_Witness ==
    /\ op = "RewriteMapPtr" /\ err = Nil /\ args.symbol = "M" /\ Len(pre) = 3
    /\ \E i \in 1..3 :
          /\ pre[i].Reference = "M"
          /\ Hi32(pre[i].Constant) # Zero32
          /\ Lo32(insns[i].Constant) # Lo32(pre[i].Constant)
    /\ \E j \in 1..3 : pre[j].Reference = "A"

----------------------------------------------------------------------------
(* C9 *)

\* pre[j] as Marshal encodes it: a call with Constant = -1 gets the
\* displacement as its constant, any other branch with Offset = -1 as its offset
Linked(seq, j) ==
    IF IsCall(seq[j]) /\ seq[j].Constant = MinusOne64
    THEN [seq[j] EXCEPT !.Constant = Int64(Displacement(seq, j))]
    ELSE IF IsBranch(seq[j]) /\ seq[j].Offset = -1
    THEN [seq[j] EXCEPT !.Offset = Displacement(seq, j)]
    ELSE seq[j]
RECURSIVE EncodingOf(_, _, _)
EncodingOf(seq, k, bo) ==
    IF k = 0 THEN <<>>
    ELSE EncodingOf(seq, k - 1, bo) \o Instruction_Marshal(Linked(seq, k), Unlimited, bo).w.buf
\* Marshal cannot encode seq[j]: its reference is missing, or its opcode invalid
Fails(seq, j) == Unresolvable(seq, j) \/ seq[j].OpCode = InvalidOpCode

----------------------------------------------------------------------------
(* C10: Marshal leaves the caller's sequence as it was, whether it fails   *)
(* or not: the sentinels it resolved are still -1 in the sequence, and     *)
(* Marshal called again on it writes the same bytes and returns the same   *)
(* error.                                                                  *)
C10_MarshalKeepsSequence ==
    op = "Marshal" =>
        /\ insns = pre
        /\ LET again == Instructions_Marshal(insns, args.w, args.bo)
           IN  again.w.buf = sink /\ again.err = err

\* Marshal resolved a jump and a call, and they are still pending
C10_Witness ==
    /\ op = "Marshal" /\ err = Nil
    /\ \E i, j \in 1..Len(pre) :
          /\ pre[i].OpCode = 5 /\ pre[i].Offset = -1 /\ EncOffset(i) # -1
          /\ pre[j].OpCode = 133 /\ pre[j].Constant = MinusOne64 /\ EncConstant(j) # Ones32
          /\ insns[i].Offset = -1 /\ insns[j].Constant = MinusOne64

----------------------------------------------------------------------------
(* C1 *)

\* Unmarshal has read back, under the same byte order, exactly the bytes
\* a successful Instruction.Marshal wrote
ReadBack ==
    /\ op = "Unmarshal"
    /\ err = Nil
    /\ insns[1].OpCode # InvalidOpCode
    /\ fed = sink
    /\ rd.bo = args.bo
SameFields(a, b) ==
    /\ a.OpCode = b.OpCode
    /\ a.Dst = b.Dst
    /\ a.Src = b.Src
    /\ a.Offset = b.Offset
    /\ a.Constant = b.Constant
RoundTrips ==
    /\ rd.err = Nil
    /\ rd.n = n
    /\ n = (IF insns[1].OpCode = LoadImmDWord THEN 16 ELSE 8)
    /\ SameFields(dec, insns[1])
\* the constant is what int64(int32(constant)) gives
FitsInt32(c) == Hi32(c) = (IF c[4] >= 128 THEN Ones32 ELSE Zero32)

(* C1 as stated: Unmarshal of what Marshal wrote gives back OpCode, Dst,   *)
(* Src, Offset and Constant and the same byte count, for every             *)
(* combination of the fields (registers in their 4 bit range).  A          *)
(* single-slot instruction carries 32 bits of constant: 0x1_0000_0001 on   *)
(* a mov comes back as 1.                                                  *)
C1_AsStated ==
    (ReadBack /\ insns[1].Dst \in 0..15 /\ insns[1].Src \in 0..15) => RoundTrips

(* C1, amended: the same, for Dst and Src in 0..15 and, on an opcode that  *)
(* is not the 64bit load, a Constant that fits in a signed 32 bits.        *)
C1_RoundTrip ==
    (/\ ReadBack
     /\ insns[1].Dst \in 0..15
     /\ insns[1].Src \in 0..15
     /\ insns[1].OpCode = LoadImmDWord \/ FitsInt32(insns[1].Constant)) => RoundTrips

\* 0x1_0000_0001 went through both slots of a 64bit load, big endian
C1_Witness ==
    /\ ReadBack
    /\ insns[1].OpCode = LoadImmDWord /\ insns[1].Constant = Wide
    /\ insns[1].Dst = 10 /\ insns[1].Src = 2 /\ insns[1].Offset = 4660
    /\ args.bo = "BE"
    /\ sink = <<24, 42, 18, 52, 0, 0, 0, 1, 0, 0, 0, 0, 0, 0, 0, 1>>
    /\ rd.n = 16

----------------------------------------------------------------------------
(* C8: when the first slot is a 64bit load, Unmarshal fails with "missing  *)
(* second half" (not the end-of-stream error) if no full second slot       *)
(* follows, with "non-zero fields" if the second slot's opcode, registers  *)
(* or offset is not zero, and otherwise returns 16 with Constant =         *)
(* uint32(second constant) << 32 | uint32(first constant); when the first  *)
(* slot is another opcode it returns 8 and leaves the second slot unread.  *)
C8_DoubleWideDecode ==
    (op = "Unmarshal" /\ Len(fed) >= 8) =>
        IF fed[1] = LoadImmDWord
        THEN IF Len(fed) < 16
             THEN /\ rd.n = 0
                  /\ rd.err.msg = "64bit immediate is missing second half"
                  /\ rd.err \notin {EOF, ErrUnexpectedEOF}
             ELSE IF fed[9] # 0 \/ fed[10] # 0 \/ fed[11] # 0 \/ fed[12] # 0
             THEN rd.n = 0 /\ rd.err.msg = "64bit immediate has non-zero fields"
             ELSE /\ rd.n = 16
                  /\ rd.err = Nil
                  /\ dec.Constant = Ordered(rd.bo, SubSeq(fed, 5, 8))
                                        \o Ordered(rd.bo, SubSeq(fed, 13, 16))
                  /\ stream = SubSeq(fed, 17, Len(fed))
        ELSE /\ rd.n = 8
             /\ rd.err = Nil
             /\ stream = SubSeq(fed, 9, Len(fed))

\* a second slot whose only fault is its registers byte
C8_Witness ==
    /\ op = "Unmarshal" /\ Len(fed) >= 16
    /\ fed[1] = LoadImmDWord
    /\ fed[9] = 0 /\ fed[10] # 0 /\ fed[11] = 0 /\ fed[12] = 0
    /\ rd.err.msg = "64bit immediate has non-zero fields"

----------------------------------------------------------------------------
(* C6 *)

Succeeded(k) == hist[k].err = Nil
\* each rewrite sets its half and keeps the other
HalvesKept ==
    /\ (op = "Instruction.RewriteMapPtr" /\ err = Nil) =>
          mapPtr(insns[1]) = Lo32(args.fd) /\ mapOffset(insns[1]) = mapOffset(pre[1])
    /\ (op = "Instruction.RewriteMapOffset" /\ err = Nil) =>
          mapOffset(insns[1]) = args.offset /\ mapPtr(insns[1]) = mapPtr(pre[1])
\* after one rewrite of each kind, in either order, both halves read back
BothReadBack ==
    (Len(hist) = 2 /\ hist[1].op # hist[2].op) =>
        LET p == IF hist[1].op = "RewriteMapPtr" THEN 1 ELSE 2
        IN  /\ mapPtr(insns[1]) = Lo32(hist[p].fd)
            /\ mapOffset(insns[1]) = hist[3 - p].offset

(* C6 as stated: on a 64bit load whose Src is a map pseudo-register        *)
(* (PseudoMapFD or PseudoMapValue), RewriteMapPtr and RewriteMapOffset     *)
(* both succeed in either order and the constant then reads back both.     *)
(* RewriteMapOffset refuses a PseudoMapFD load.                            *)
C6_AsStated ==
    (insns[1].OpCode = LoadImmDWord /\ insns[1].Src \in {PseudoMapFD, PseudoMapValue}) =>
        /\ \A k \in 1..Len(hist) : Succeeded(k)
        /\ HalvesKept
        /\ BothReadBack

(* C6, amended: on a 64bit load whose Src is PseudoMapValue,               *)
(* RewriteMapPtr(h) and RewriteMapOffset(o) both succeed in either order,  *)
(* mapPtr() then returns h truncated to 32 bits and mapOffset() returns    *)
(* o, and each write leaves the other half of the constant unchanged.      *)
C6_BitPacking ==
    (insns[1].OpCode = LoadImmDWord /\ insns[1].Src = PseudoMapValue) =>
        /\ \A k \in 1..Len(hist) : Succeeded(k)
        /\ HalvesKept
        /\ BothReadBack

\* the offset was written first, then an fd wider than 32 bits
C6_Witness ==
    /\ insns[1].OpCode = LoadImmDWord /\ insns[1].Src = PseudoMapValue
    /\ Len(hist) = 2
    /\ hist[1].op = "RewriteMapOffset" /\ hist[1].offset = Ones32 /\ Succeeded(1)
    /\ hist[2].op = "RewriteMapPtr" /\ hist[2].fd = BigFd /\ Succeeded(2)
    /\ insns[1].Constant = <<120, 86, 52, 18, 255, 255, 255, 255>>

====
